---- MODULE Spec2Model ----
(***************************************************************************)
(* Model of the tenant context store, the tenant-aware task dispatcher and *)
(* the provisioning tasks of sharifelguindi/mate.                          *)
(*                                                                         *)
(*   Spec      the context store (mate/tenants/managers.py) and            *)
(*             TenantAwareTask.__call__ (mate/tenants/tasks.py) on worker  *)
(*             threads                                                     *)
(*   SubmitSpec  TenantAwareTask.apply_async on submitting threads and the  *)
(*             messages it hands to the broker                             *)
(*   ProvSpec  the provisioning tasks (mate/provisioning/tasks.py) over    *)
(*             the Tenant and TenantEvent tables (mate/tenants/models.py); *)
(*             ProvFairSpec adds that a worker keeps running its task      *)
(*   PollSpec  the pollers of configure_tenant_resources on a new tenant   *)
(*   CredSpec  the database credential resolver and its cache              *)
(*             (mate/tenants/db_utils.py)                                  *)
(*   MwSpec    requests through TenantMiddleware                           *)
(*             (mate/tenants/middleware.py)                                *)
(*   CreateSpec  the four resource creation tasks                          *)
(*             (mate/provisioning/tasks.py)                                *)
(*   RecordSpec  provision_elasticache next to the pollers, over the       *)
(*             resource records                                            *)
(***************************************************************************)
EXTENDS Integers, Sequences, FiniteSets, TLC

VARIABLES
    \* ---- dispatcher ----
    store,      \* _thread_locals: per slot, the "tenant" attribute or Unset
    pc,         \* per thread: "idle", "run" (inside self.run) or "done"
    frame,      \* per thread: the locals of the current TenantAwareTask.__call__
    calllog,    \* per thread: the log records the current __call__ has emitted
    broker,     \* messages handed to Task.apply_async, oldest first
    isolation,  \* settings.USE_TENANT_QUEUE_ISOLATION: "unset", "true", "false"
    \* ---- provisioning ----
    row,          \* the Tenant table: primary key -> stored field values
    events,       \* the TenantEvent table
    run,          \* per provisioning task: its position and its locals
    now,          \* timezone.now()
    cloud_failed, \* some cloud call of a provisioning task has failed so far
    \* ---- credential resolver ----
    cache,        \* _db_config_cache: cache key -> configuration or NoEntry
    resolver,     \* per unit: the get_tenant_db_config call it is running
    ended,        \* per tenant: how calls ended since its entry was last cleared
    \* ---- tenant resolver (request path) ----
    environ,      \* os.environ.get("TENANT_SUBDOMAIN")
    site,         \* per tenant: is_active and deployment_status as stored
    members,      \* the TenantUser table: (user, tenant) -> membership row
    request,      \* the request last processed: its inputs and what became of it
    \* ---- resource creation tasks ----
    create,       \* per creation task: its position and locals
    cloud,        \* the calls issued to the cloud provider so far
    resources     \* the TenantInfrastructureResource table

dvars == <<store, pc, frame, calllog, broker, isolation>>

pvars == <<row, events, run, now, cloud_failed>>

cvars == <<cache, resolver, ended>>

mvars == <<environ, site, members, request>>

kvars == <<create, cloud, resources>>

vars == <<store, pc, frame, calllog, broker, isolation,
          row, events, run, now, cloud_failed,
          cache, resolver, ended,
          environ, site, members, request,
          create, cloud, resources>>

-----------------------------------------------------------------------------
(* Bounds of the dispatcher model *)

NumThreads == 2
MaxQueue == 1

Threads == 1..NumThreads

-----------------------------------------------------------------------------
(* Values *)

None == "None"
Unset == "unset"
Absent == "absent"

\* Tenant rows of the dispatcher model, named by primary key.
TenantIds == {"idA", "idB", "idH"}

\* A key that is a well-formed UUID but the primary key of no Tenant row.
MissingIds == {"idX"}

\* A slug is modelled by its split on "-": "hospital-a" is <<"hospital","a">>,
\* so that f"{x}-{y}" is the concatenation of the two sequences.
subdomain(t) ==
    CASE t = "idA" -> <<"hospital", "a">>
      [] t = "idB" -> <<"hospital", "b">>
      [] t = "idH" -> <<"hospital">>

\* str(tenant.id): the text of a UUID
UuidStr(id) ==
    CASE id = "idA" -> "uuid-A"
      [] id = "idB" -> "uuid-B"
      [] id = "idH" -> "uuid-H"
      [] id = "idX" -> "uuid-X"

\* Tenant.objects.get(id=s): the rows whose primary key parses from s
TenantsWithId(s) == {t \in TenantIds : UuidStr(t) = s}

\* The _tenant_id values a payload may carry: none, the empty string, the
\* text of an existing tenant's key, the text of a key with no row.
PayloadIds == {Absent, None, ""} \cup {UuidStr(i) : i \in TenantIds \cup MissingIds}

\* Queue names a caller may request (kombu queues of config/celery_app.py
\* and a hyphenated one); NoQueue stands for options without a "queue" key.
QueueNames == {<<"gpu">>, <<"priority">>, <<"a", "default">>}
NoOptions == [has_queue |-> FALSE, queue |-> <<>>]
QueueOption(q) == [has_queue |-> TRUE, queue |-> q]
OptionValues == {NoOptions} \cup {QueueOption(q) : q \in QueueNames}

\* kwargs of a task call: None, or a dict that may hold "_tenant_id" and
\* the caller's own entry "key".
KwNone == [is_none |-> TRUE, tenant_id |-> Absent, key |-> Absent]
Kw(tid, k) == [is_none |-> FALSE, tenant_id |-> tid, key |-> k]
CallerKwargs == {KwNone, Kw(Absent, Absent), Kw(Absent, "value")}

\* Exceptions (subclasses of Exception) a job body may raise
BodyExceptions == {"ValueError", "RuntimeError"}

-----------------------------------------------------------------------------
(* Tenant context store: mate/tenants/managers.py *)

\* _thread_locals = threading.local(): every thread has its own attributes
SharedSlot(th) == 1
StoreSlot(th) == th

get_current_tenant(th) ==
    IF store[StoreSlot(th)] = Unset THEN None ELSE store[StoreSlot(th)]

set_current_tenant(th, tenant) ==
    [store EXCEPT ![StoreSlot(th)] = tenant]

clear_current_tenant(th) ==
    [store EXCEPT ![StoreSlot(th)] = Unset]

-----------------------------------------------------------------------------
(* TenantAwareTask.apply_async: mate/tenants/tasks.py *)

\* Python truthiness of the value read for "_tenant_id" / of the context
Truthy(v) == v \notin {Absent, None, ""}

\* kwargs = kwargs or {}; kwargs["_tenant_id"] = str(tenant.id)
inject_dropped(tenant, kwargs) ==
    IF kwargs.is_none THEN Kw(Absent, Absent) ELSE kwargs
inject_tenant_id(tenant, kwargs) ==
    [is_none |-> FALSE,
     tenant_id |-> UuidStr(tenant),
     key |-> IF kwargs.is_none THEN Absent ELSE kwargs.key]

\* options["queue"] = f"{tenant.subdomain}-{options['queue']}" when a queue
\* was requested, else f"{tenant.subdomain}-default"
route_queue_suffix_only(tenant, options) ==
    IF options.has_queue THEN options ELSE QueueOption(<<"default">>)
route_queue(tenant, options) ==
    IF options.has_queue
    THEN QueueOption(subdomain(tenant) \o options.queue)
    ELSE QueueOption(subdomain(tenant) \o <<"default">>)

\* hasattr(settings, "USE_TENANT_QUEUE_ISOLATION") and settings.USE_TENANT_QUEUE_ISOLATION
IsolationEnabled == isolation = "true"

\* What apply_async hands to Task.apply_async for a caller whose context
\* store holds `current` (None or a tenant).
apply_async(current, kwargs, options) ==
    IF Truthy(current)
    THEN [kwargs |-> inject_tenant_id(current, kwargs),
          options |-> IF IsolationEnabled THEN route_queue(current, options)
                      ELSE options]
    ELSE [kwargs |-> kwargs, options |-> options]

\* A thread submits a job with whatever its context store holds.
ApplyAsync(th, kwargs, options) ==
    /\ Len(broker) < MaxQueue
    /\ LET current == get_current_tenant(th)
           sent == apply_async(current, kwargs, options)
       IN broker' = Append(broker,
               [kwargs |-> sent.kwargs, options |-> sent.options,
                \* what the submission was made with, kept to state the claims
                current |-> current, req_kwargs |-> kwargs, req_options |-> options])
    /\ UNCHANGED <<store, pc, frame, calllog, isolation>>
    /\ UNCHANGED <<pvars, cvars, mvars, kvars>>

-----------------------------------------------------------------------------
(* TenantAwareTask.__call__: mate/tenants/tasks.py *)

NoFrame ==
    [tenant_id |-> Absent,  \* kwargs.pop("_tenant_id", None)
     tenant |-> None,       \* the local variable tenant
     ran |-> FALSE,         \* self.run was called
     body_exc |-> None,     \* what self.run raised, if it did
     outcome |-> "none",    \* how __call__ ended: "returned" or "raised"
     exc |-> None]          \* the exception __call__ raised

LogRecord(level, who, detail) == [level |-> level, tenant |-> who, detail |-> detail]

\* if not tenant_id: logger.warning(f"Task {self.name} called without tenant context")
no_warning(tenant_id) == <<>>
missing_tenant_warning(tenant_id) ==
    IF ~Truthy(tenant_id)
    THEN <<LogRecord("warning", <<>>, "called without tenant context")>>
    ELSE <<>>

\* except Tenant.DoesNotExist: logger.exception(...); raise
swallow_missing_tenant == "run"
on_missing_tenant == "done"

\* Lines 32-52: pop the identifier, warn, look the tenant up, set the context.
CallEnter(th, kwargs) ==
    LET tenant_id == IF kwargs.is_none THEN Absent ELSE kwargs.tenant_id
        found == TenantsWithId(tenant_id)
        warned == missing_tenant_warning(tenant_id)
        base == [NoFrame EXCEPT !.tenant_id = tenant_id]
    IN IF Truthy(tenant_id) /\ found = {}
       THEN /\ calllog' = [calllog EXCEPT ![th] =
                    warned \o <<LogRecord("exception", <<>>, tenant_id)>>]
            /\ pc' = [pc EXCEPT ![th] = on_missing_tenant]
            /\ frame' = [frame EXCEPT ![th] =
                    IF on_missing_tenant = "done"
                    THEN [base EXCEPT !.outcome = "raised", !.exc = "DoesNotExist"]
                    ELSE [base EXCEPT !.ran = TRUE]]
            /\ store' = store
       ELSE IF Truthy(tenant_id)
       THEN LET tenant == CHOOSE t \in found : TRUE
            IN /\ store' = set_current_tenant(th, tenant)
               /\ calllog' = [calllog EXCEPT ![th] =
                       warned \o <<LogRecord("info", subdomain(tenant), "running")>>]
               /\ pc' = [pc EXCEPT ![th] = "run"]
               /\ frame' = [frame EXCEPT ![th] =
                       [base EXCEPT !.tenant = tenant, !.ran = TRUE]]
       ELSE /\ store' = store
            /\ calllog' = [calllog EXCEPT ![th] = warned]
            /\ pc' = [pc EXCEPT ![th] = "run"]
            /\ frame' = [frame EXCEPT ![th] = [base EXCEPT !.ran = TRUE]]

\* except Exception as e: logger.error(f"... failed for tenant {subdomain or 'none'}: {e}"); raise
handler_swallows(tenant, e) ==
    [log |-> <<LogRecord("error",
                         IF tenant # None THEN subdomain(tenant) ELSE <<"none">>, e)>>,
     raised |-> None]
body_exception_handler(tenant, e) ==
    [log |-> <<LogRecord("error",
                         IF tenant # None THEN subdomain(tenant) ELSE <<"none">>, e)>>,
     raised |-> e]

\* finally: clear_current_tenant()
call_finally_on_success_only(th, e) ==
    IF e = None THEN clear_current_tenant(th) ELSE store
call_finally(th, e) == clear_current_tenant(th)

\* Lines 54-66: self.run has returned (e = None) or raised e.
CallExit(th, e) ==
    LET h == IF e = None THEN [log |-> <<>>, raised |-> None]
             ELSE body_exception_handler(frame[th].tenant, e)
    IN /\ calllog' = [calllog EXCEPT ![th] = @ \o h.log]
       /\ store' = call_finally(th, e)
       /\ frame' = [frame EXCEPT ![th].outcome =
                        IF h.raised = None THEN "returned" ELSE "raised",
                    ![th].exc = h.raised,
                    ![th].body_exc = e]
       /\ pc' = [pc EXCEPT ![th] = "done"]

\* The task is called with a payload: by a worker for a delivered message,
\* or directly as task(**kwargs), as the tests do.
Invoke(th, tenant_id) ==
    /\ pc[th] = "idle"
    /\ CallEnter(th, Kw(tenant_id, "value"))
    /\ UNCHANGED <<broker, isolation>>
    /\ UNCHANGED <<pvars, cvars, mvars, kvars>>

\* a worker takes the oldest message off the broker
Deliver ==
    /\ broker # <<>>
    /\ broker' = Tail(broker)
    /\ UNCHANGED <<store, pc, frame, calllog, isolation>>
    /\ UNCHANGED <<pvars, cvars, mvars, kvars>>

BodyReturn(th) ==
    /\ pc[th] = "run"
    /\ CallExit(th, None)
    /\ UNCHANGED <<broker, isolation>>
    /\ UNCHANGED <<pvars, cvars, mvars, kvars>>

BodyRaise(th, e) ==
    /\ pc[th] = "run"
    /\ CallExit(th, e)
    /\ UNCHANGED <<broker, isolation>>
    /\ UNCHANGED <<pvars, cvars, mvars, kvars>>

\* __call__ has returned or raised to its caller, which goes on
Reap(th) ==
    /\ pc[th] = "done"
    /\ pc' = [pc EXCEPT ![th] = "idle"]
    /\ frame' = [frame EXCEPT ![th] = NoFrame]
    /\ calllog' = [calllog EXCEPT ![th] = <<>>]
    /\ UNCHANGED <<store, broker, isolation>>
    /\ UNCHANGED <<pvars, cvars, mvars, kvars>>

\* set_current_tenant / clear_current_tenant called outside any job:
\* tests' setUp, examples/task_routing_demo.py, request code
SetCurrentTenant(th, tenant) ==
    /\ pc[th] = "idle"
    /\ store' = set_current_tenant(th, tenant)
    /\ UNCHANGED <<pc, frame, calllog, broker, isolation>>
    /\ UNCHANGED <<pvars, cvars, mvars, kvars>>

ClearCurrentTenant(th) ==
    /\ pc[th] = "idle"
    /\ store' = clear_current_tenant(th)
    /\ UNCHANGED <<pc, frame, calllog, broker, isolation>>
    /\ UNCHANGED <<pvars, cvars, mvars, kvars>>

\* ------------------------------------------------------------------
\* Credential resolver (mate/tenants/db_utils.py)
\* ------------------------------------------------------------------

NumResolvers == 1

\* The concurrent units that call get_tenant_db_config
Resolvers == 1..NumResolvers

\* Tenants by subdomain; "bare" has no database secret configured
CredTenants == {"acme", "beta", "bare"}

db_secret_arn(t) ==
    CASE t = "acme" -> "arn-acme"
      [] t = "beta" -> "arn-beta"
      [] OTHER -> ""

\* Cache keys: the subdomains, and one that belongs to no tenant
CacheKeys == CredTenants \cup {"ghost"}

\* What the secret store can answer to get_secret_value: a secret with the
\* credentials, a JSON object without them, no answer (the call raises), a
\* secret without SecretString, text that is not JSON, JSON that is not an
\* object
SecretResponses ==
    {"credentials", "incomplete", "unreachable", "no_secret_string",
     "invalid_json", "not_an_object"}

NoConfig == [NAME |-> "", USER |-> None, PASSWORD |-> None]

\* A key without entry in the dict
NoEntry == NoConfig

\* Lines 38-52: credentials.get("username") is None when the key is missing
db_config(t, response) ==
    [NAME |-> t,
     USER |-> IF response = "credentials" THEN "mate_admin" ELSE None,
     PASSWORD |-> IF response = "credentials" THEN "secret" ELSE None]

\* Lines 35-36 and 41-42: the exception the response raises, or None
parse_accepts_all(response) == None
parse_exception(response) ==
    CASE response = "unreachable" -> "ClientError"
      [] response = "no_secret_string" -> "KeyError"
      [] response = "invalid_json" -> "JSONDecodeError"
      [] response = "not_an_object" -> "AttributeError"
      [] OTHER -> None

\* cache_key in _db_config_cache (line 25)
cache_never_hits(c, key) == FALSE
cache_hit(c, key) == c[key] # NoEntry

\* clear_db_config_cache (lines 123-130)
clear_everything(c, tenant_subdomain) == [k \in CacheKeys |-> NoEntry]
clear_db_config_cache(c, tenant_subdomain) ==
    IF Truthy(tenant_subdomain)
        THEN [c EXCEPT ![tenant_subdomain] = NoEntry]
        ELSE [k \in CacheKeys |-> NoEntry]

\* One call of get_tenant_db_config: pc its position, tenant its argument,
\* response what the secret store answered, result and exc how it ended,
\* after the value of ended[tenant] when the call looked into the cache,
\* cleared whether clear_db_config_cache has run for the tenant's key since
\* the call fetched its response
IdleCall ==
    [pc |-> "idle", tenant |-> "", response |-> None, result |-> NoConfig,
     exc |-> None, after |-> "no", cleared |-> FALSE]

\* How the calls for a tenant have ended since its entry was last cleared
EndedWith(t, how) ==
    [ended EXCEPT ![t] = IF @ = "returned" THEN @ ELSE how]

ResolveStart(u, t) ==
    /\ resolver[u].pc = "idle"
    /\ resolver' = [resolver EXCEPT ![u] =
                       [IdleCall EXCEPT !.pc = "lookup", !.tenant = t]]
    /\ UNCHANGED <<cache, ended>>
    /\ UNCHANGED <<dvars, pvars, mvars, kvars>>

\* Lines 22-30
ResolveLookup(u) ==
    LET r == resolver[u]
        r1 == [r EXCEPT !.after = ended[r.tenant]]
    IN
    /\ r.pc = "lookup"
    /\ IF cache_hit(cache, r.tenant)
           THEN /\ resolver' = [resolver EXCEPT ![u] =
                                   [r1 EXCEPT !.pc = "done",
                                              !.result = cache[r.tenant]]]
                /\ ended' = EndedWith(r.tenant, "returned")
       ELSE IF ~Truthy(db_secret_arn(r.tenant))
           THEN /\ resolver' = [resolver EXCEPT ![u] =
                                   [r1 EXCEPT !.pc = "done",
                                              !.exc = "ValueError"]]
                /\ ended' = EndedWith(r.tenant, "failed")
       ELSE /\ resolver' = [resolver EXCEPT ![u] = [r1 EXCEPT !.pc = "fetch"]]
            /\ UNCHANGED ended
    /\ UNCHANGED cache
    /\ UNCHANGED <<dvars, pvars, mvars, kvars>>

\* Lines 34-35: the secret-store call
ResolveFetch(u, response) ==
    LET r == resolver[u] IN
    /\ r.pc = "fetch"
    /\ resolver' = [resolver EXCEPT ![u] =
                       [r EXCEPT !.pc = "parse", !.response = response]]
    /\ UNCHANGED <<cache, ended>>
    /\ UNCHANGED <<dvars, pvars, mvars, kvars>>

\* Lines 36-61
ResolveParse(u) ==
    LET r == resolver[u]
        e == parse_exception(r.response)
        config == db_config(r.tenant, r.response)
    IN
    /\ r.pc = "parse"
    /\ IF e # None
           THEN /\ resolver' = [resolver EXCEPT ![u] =
                                   [r EXCEPT !.pc = "done", !.exc = e]]
                /\ ended' = EndedWith(r.tenant, "failed")
                /\ UNCHANGED cache
           ELSE /\ cache' = [cache EXCEPT ![r.tenant] = config]
                /\ resolver' = [resolver EXCEPT ![u] =
                                   [r EXCEPT !.pc = "done", !.result = config]]
                /\ ended' = EndedWith(r.tenant, "returned")
    /\ UNCHANGED <<dvars, pvars, mvars, kvars>>

\* The caller has the result
ResolveEnd(u) ==
    /\ resolver[u].pc = "done"
    /\ resolver' = [resolver EXCEPT ![u] = IdleCall]
    /\ UNCHANGED <<cache, ended>>
    /\ UNCHANGED <<dvars, pvars, mvars, kvars>>

\* The arguments clear_db_config_cache is called with
ClearArgs == CacheKeys \cup {None}

ClearCache(k) ==
    /\ cache' = clear_db_config_cache(cache, k)
    /\ ended' = [t \in CredTenants |->
                    IF cache'[t] = NoEntry /\ (k = t \/ ~Truthy(k))
                        THEN "no" ELSE ended[t]]
    /\ resolver' = [u \in Resolvers |->
                       IF /\ resolver[u].pc = "parse"
                          /\ (k = resolver[u].tenant \/ ~Truthy(k))
                           THEN [resolver[u] EXCEPT !.cleared = TRUE]
                           ELSE resolver[u]]
    /\ UNCHANGED <<dvars, pvars, mvars, kvars>>

\* No call is running and the cache is empty
CredQuiet ==
    /\ cache = [k \in CacheKeys |-> NoEntry]
    /\ resolver = [u \in Resolvers |-> IdleCall]
    /\ ended = [t \in CredTenants |-> "no"]

\* ------------------------------------------------------------------
\* Tenant resolver on the request path (mate/tenants/middleware.py)
\* ------------------------------------------------------------------

\* A nullable timestamp: <<>> is NULL, <<t>> is the time t
NullTime == <<>>

MwTenantIds == {"idA", "idB"}

mw_subdomain(t) == IF t = "idA" THEN "hospital-a" ELSE "hospital-b"

\* The strings that are the primary key of a tenant
MwTenantOfUuid(v) == {t \in MwTenantIds : UuidStr(t) = v}

\* The strings UUIDField accepts as a primary key value; any other raises
\* ValidationError in Tenant.objects.get(id=...)
ValidUuids == {UuidStr(t) : t \in MwTenantIds} \cup {"uuid-X"}

\* TENANT_SUBDOMAIN: not set, empty, the subdomain of a tenant or of none
EnvValues == {None, "", "hospital-a", "hospital-b", "nobody"}

\* HTTP_X_TENANT_ID: not sent, empty, a tenant's id, an id of no tenant, a
\* string that is not a UUID
HeaderValues == {Absent, "", "uuid-A", "uuid-B", "uuid-X", "hospital-b"}

\* request.get_host(): the labels of the host name and the port after ":"
Hosts ==
    {[labels |-> <<"localhost">>, port |-> "8000"],
     [labels |-> <<"127", "0", "0", "1">>, port |-> ""],
     [labels |-> <<"hospital-a", "mate", "com">>, port |-> ""],
     [labels |-> <<"HOSPITAL-B", "mate", "com">>, port |-> "8443"],
     [labels |-> <<"www", "mate", "com">>, port |-> ""],
     [labels |-> <<"nobody", "mate", "com">>, port |-> ""],
     [labels |-> <<"mate", "com">>, port |-> ""]}

\* request.session["tenant_id"], Absent when there is none
SessionValues == {Absent, "uuid-A", "uuid-X"}

\* request.user
Users == {"anonymous", "alice", "bob"}

is_authenticated(user) == user # "anonymous"

RequestInputs ==
    [header : HeaderValues, host : Hosts, session : SessionValues,
     user : Users]

\* str.lower() of a host label
lower(label) == IF label = "HOSPITAL-B" THEN "hospital-b" ELSE label

\* What a stored tenant can look like to the resolver
Usabilities ==
    {[is_active |-> TRUE, deployment_status |-> st] :
        st \in {"pending", "provisioning", "active", "suspended", "terminated"}}
    \cup {[is_active |-> FALSE, deployment_status |-> st] :
        st \in {"active", "suspended"}}

\* Results of get_tenant and of process_request
Found(t) == [kind |-> "tenant", tenant |-> t, msg |-> ""]

NoTenant == [kind |-> "none", tenant |-> None, msg |-> ""]

Raise404(msg) == [kind |-> "Http404", tenant |-> None, msg |-> msg]

RaiseValidationError ==
    [kind |-> "ValidationError", tenant |-> None, msg |-> "not a valid UUID"]

\* The lookups of get_tenant keep only rows with is_active=True and
\* deployment_status="active"
lookup_filter(t) ==
    /\ site[t].is_active
    /\ site[t].deployment_status = "active"

\* Tenant.objects.get(subdomain=..., is_active=True, deployment_status="active")
get_by_subdomain(sub) ==
    {t \in MwTenantIds : mw_subdomain(t) = sub /\ lookup_filter(t)}

\* Tenant.objects.get(id=..., is_active=True, deployment_status="active")
get_by_id(v) == {t \in MwTenantOfUuid(v) : lookup_filter(t)}

\* Lines 118-151: the tenant named by the session or by the host
get_tenant_by_host(req) ==
    LET host == [i \in 1..Len(req.host.labels) |-> lower(req.host.labels[i])]
    IN
    IF host = <<"localhost">> \/ host = <<"127", "0", "0", "1">>
           \/ Len(host) = 1
        THEN IF req.session # Absent
                 THEN IF req.session \notin ValidUuids
                          THEN RaiseValidationError
                      ELSE IF get_by_id(req.session) # {}
                          THEN Found(CHOOSE t \in get_by_id(req.session) : TRUE)
                      ELSE NoTenant
                 ELSE NoTenant
    ELSE IF Len(host) >= 3
        THEN IF host[1] \in {"www", "api", "admin", "docs", "manage"}
                 THEN NoTenant
             ELSE IF get_by_subdomain(host[1]) # {}
                 THEN Found(CHOOSE t \in get_by_subdomain(host[1]) : TRUE)
             ELSE Raise404("Organization not found")
    ELSE NoTenant

\* Lines 100-115: the tenant named by the X-Tenant-Id header
get_tenant_by_header(req) ==
    IF req.header \notin ValidUuids
        THEN RaiseValidationError
    ELSE IF get_by_id(req.header) # {}
        THEN Found(CHOOSE t \in get_by_id(req.header) : TRUE)
    ELSE Raise404("Tenant not found")

\* Lines 86-98: the tenant named by the environment
get_tenant_by_env(env) ==
    IF get_by_subdomain(env) # {}
        THEN Found(CHOOSE t \in get_by_subdomain(env) : TRUE)
        ELSE Raise404("Service configuration error")

\* TenantMiddleware.get_tenant (lines 77-151)
get_tenant_header_first(env, req) ==
    IF Truthy(req.header) THEN get_tenant_by_header(req)
    ELSE IF Truthy(env) THEN get_tenant_by_env(env)
    ELSE get_tenant_by_host(req)
get_tenant(env, req) ==
    IF Truthy(env) THEN get_tenant_by_env(env)
    ELSE IF Truthy(req.header) THEN get_tenant_by_header(req)
    ELSE get_tenant_by_host(req)

\* The TenantUser rows: alice is an active member of tenant A, bob's
\* membership of tenant A is switched off, nobody is a member of tenant B
MemberKeys == {<<"alice", "idA">>, <<"bob", "idA">>}

NewMembers ==
    [k \in MemberKeys |->
        [is_active |-> (k[1] = "alice"), last_login_at |-> NullTime]]

\* TenantUser.objects.get(tenant=tenant, user=request.user, is_active=True)
any_membership(mem, user, tenant) ==
    {k \in DOMAIN mem : k = <<user, tenant>>}
active_membership(mem, user, tenant) ==
    {k \in DOMAIN mem : k = <<user, tenant>> /\ mem[k].is_active}

\* TenantUser.update_last_login (models.py): stamps and saves the row
update_last_login(mem, k, t_now) ==
    [mem EXCEPT ![k].last_login_at = <<t_now>>]

\* What process_request leaves behind: how it ended, request.tenant and
\* request.tenant_user (Absent while the attribute was never assigned) and
\* the TenantUser table
Outcome(kind, msg, tenant, tenant_user, mem) ==
    [kind |-> kind, msg |-> msg, tenant |-> tenant,
     tenant_user |-> tenant_user, members |-> mem]

\* TenantMiddleware.validate_user_access (lines 153-183); request.tenant
\* was assigned before it is called
validate_user_access(mem, user, tenant, t_now) ==
    IF active_membership(mem, user, tenant) # {}
        THEN LET k == CHOOSE k \in active_membership(mem, user, tenant) : TRUE
             IN Outcome("ok", "", tenant, k, update_last_login(mem, k, t_now))
        ELSE Outcome("Http404", "You don't have access to this organization",
                     tenant, Absent, mem)

\* TenantMiddleware.process_request (lines 29-63)
process_request_trusts_header(env, req, mem, t_now) ==
    IF MwTenantOfUuid(req.header) # {}
        THEN Outcome("ok", "", CHOOSE t \in MwTenantOfUuid(req.header) : TRUE,
                     Absent, mem)
        ELSE Outcome("ok", "", None, Absent, mem)
process_request(env, req, mem, t_now) ==
    LET res == get_tenant(env, req)
        tenant == res.tenant
    IN
    IF res.kind \in {"Http404", "ValidationError"}
        THEN Outcome(res.kind, res.msg, Absent, Absent, mem)
    ELSE IF res.kind = "tenant"
        THEN IF ~site[tenant].is_active
                 THEN Outcome("Http404",
                          "This organization's account is currently inactive",
                          Absent, Absent, mem)
             ELSE IF site[tenant].deployment_status # "active"
                 THEN Outcome("Http404",
                          CASE site[tenant].deployment_status = "provisioning" ->
                                   "Your environment is being set up. Please try again in a few minutes."
                            [] site[tenant].deployment_status = "suspended" ->
                                   "This organization's account has been suspended"
                            [] OTHER -> "This organization is not available",
                          Absent, Absent, mem)
             ELSE IF is_authenticated(req.user)
                 THEN validate_user_access(mem, req.user, tenant, t_now)
             ELSE Outcome("ok", "", tenant, Absent, mem)
    ELSE Outcome("ok", "", None, Absent, mem)

NoRequest == [in |-> None, kind |-> "none", msg |-> "", tenant |-> Absent,
              tenant_user |-> Absent]

\* A request arrives at the process while it handles no other
ReceiveRequest(in) ==
    /\ request = NoRequest
    /\ request' = [NoRequest EXCEPT !.in = in, !.kind = "received"]
    /\ UNCHANGED <<environ, site, members>>
    /\ UNCHANGED <<dvars, pvars, cvars, kvars>>

\* The request goes through process_request
ProcessRequest ==
    /\ request.kind = "received"
    /\ LET out == process_request(environ, request.in, members, now)
       IN
       /\ request' = [in |-> request.in, kind |-> out.kind, msg |-> out.msg,
                      tenant |-> out.tenant,
                      tenant_user |-> out.tenant_user]
       /\ members' = out.members
    /\ UNCHANGED <<environ, site>>
    /\ UNCHANGED <<dvars, pvars, cvars, kvars>>

\* The response (or the error page) has been sent
EndRequest ==
    /\ request.kind \notin {"none", "received"}
    /\ request' = NoRequest
    /\ UNCHANGED <<environ, site, members>>
    /\ UNCHANGED <<dvars, pvars, cvars, kvars>>

\* No request was made; every tenant is usable and the process has no
\* TENANT_SUBDOMAIN
MwQuiet ==
    /\ environ = None
    /\ site = [t \in MwTenantIds |->
                  [is_active |-> TRUE, deployment_status |-> "active"]]
    /\ members = NewMembers
    /\ request = NoRequest

\* ------------------------------------------------------------------
\* Provisioning tasks (mate/provisioning/tasks.py) over the Tenant and
\* TenantEvent tables (mate/tenants/models.py)
\* ------------------------------------------------------------------

MaxTime == 1

MaxRunning == 1

RDS_MAX_ATTEMPTS == 60

CACHE_MAX_ATTEMPTS == 30

max_retries == 3

DEPLOYMENT_STATUS_CHOICES ==
    {"pending", "provisioning", "active", "suspended", "terminated"}

\* Primary keys that have a Tenant row, and one that has none
ProvTenantIds == {"acme"}

ProvMissingIds == {"ghost"}

\* The attributes a Tenant instance has after Tenant.objects.get: its fields
TenantFields ==
    {"id", "name", "slug", "subdomain", "schema_name", "owner",
     "contact_email", "contact_phone", "technical_contact_email",
     "billing_contact_email", "billing_address", "aws_region",
     "aws_account_id", "vpc_id", "subnet_ids", "security_group_ids",
     "rds_instance_id", "rds_endpoint", "rds_port", "rds_database_name",
     "elasticache_cluster_id", "elasticache_endpoint", "redis_cluster_id",
     "redis_endpoint", "redis_port", "s3_bucket_name", "s3_bucket_region",
     "kms_key_id", "db_secret_arn", "redis_secret_arn", "deployment_status",
     "is_active", "created_at", "updated_at", "provisioned_at",
     "activated_at", "provisioning_started_at", "provisioning_completed_at",
     "suspended_at", "is_suspended", "plan", "max_storage_gb", "max_users",
     "max_api_calls_per_month", "estimated_monthly_cost", "hipaa_compliant",
     "is_hipaa_compliant", "baa_signed_at", "baa_signed_date", "baa_document",
     "data_retention_years", "settings"}

\* The methods class Tenant defines
TenantMethods == {"__str__", "get_database_name"}

\* The keyword arguments TenantEvent(...) accepts: its fields
TenantEventFields ==
    {"id", "tenant", "event_type", "user", "description", "metadata",
     "created_at"}

\* Model.__init__ raises TypeError on a keyword that is not a field, so
\* objects.create inserts a row only when every keyword is one
TenantEvent_create_accepts(kwargs) == kwargs \subseteq TenantEventFields

\* The fields of a Tenant row the provisioning tasks read or write
NewTenant(status) ==
    [deployment_status |-> status,
     is_active |-> TRUE,
     provisioning_started_at |-> NullTime,
     provisioning_completed_at |-> NullTime,
     activated_at |-> NullTime,
     rds_endpoint |-> "",
     redis_endpoint |-> "",
     rds_instance_id |-> "",
     redis_cluster_id |-> "",
     s3_bucket_name |-> "",
     kms_key_id |-> ""]

ProvKinds == {"orch", "conf", "deprov"}

\* One run of a task: pc its position, arg its tenant_id, inst the local
\* `tenant` (loaded says whether it is bound), extra the attributes assigned
\* on the instance that are not fields, exc the exception in flight or the
\* one the run ended with, retries self.request.retries, checks the status
\* checks made by the poller that ran last
IdleRun ==
    [pc |-> "idle", arg |-> "", loaded |-> FALSE,
     inst |-> NewTenant("pending"),
     extra |-> [infrastructure_status |-> Unset],
     exc |-> None, retries |-> 0, countdown |-> 0, checks |-> 0]

\* An assignment that reaches the stored field
set_deployment_status(r, value) ==
    [r EXCEPT !.inst.deployment_status = value,
              !.extra.infrastructure_status = value]
\* tenant.infrastructure_status = value.  The name is not in TenantFields,
\* so the value lives on the instance and save() never writes it.
set_infrastructure_status(r, value) ==
    [r EXCEPT !.extra.infrastructure_status = value]

\* tenant.save() writes every field of the instance over the stored row
save(tid, inst) == [row EXCEPT ![tid] = inst]

\* The status the run holds for its tenant: the attribute it assigned, or
\* else the deployment_status it loaded
CurStatus(r) ==
    IF r.extra.infrastructure_status # Unset
        THEN r.extra.infrastructure_status
        ELSE r.inst.deployment_status

\* The task runs a worker has taken and whose result is not yet collected
Running == {k \in ProvKinds : run[k].pc # "idle"}

\* A run that has ended: its locals are gone, its exception (if any) remains
Ended(r, exc) == [IdleRun EXCEPT !.pc = "done", !.arg = r.arg, !.exc = exc]

\* A task is invoked with a tenant id (nothing in the repository calls the
\* provisioning tasks; they are entry points of the worker)
Start(k, tid) ==
    /\ run[k].pc = "idle"
    /\ Cardinality(Running) < MaxRunning
    /\ run' = [run EXCEPT ![k] = [IdleRun EXCEPT !.pc = "load", !.arg = tid]]
    /\ UNCHANGED <<row, events, now, cloud_failed>>
    /\ UNCHANGED <<dvars, cvars, mvars, kvars>>

\* The result of a finished run is collected
Collect(k) ==
    /\ run[k].pc = "done"
    /\ run' = [run EXCEPT ![k] = IdleRun]
    /\ UNCHANGED <<row, events, now, cloud_failed>>
    /\ UNCHANGED <<dvars, cvars, mvars, kvars>>

Tick ==
    /\ now < MaxTime
    /\ now' = now + 1
    /\ UNCHANGED <<row, events, run, cloud_failed>>
    /\ UNCHANGED <<dvars, cvars, mvars, kvars>>

\* ---- provision_tenant_infrastructure ----

\* Line 25.  Tenant.DoesNotExist is raised inside the try block; the handler
\* then reaches line 63 with the local `tenant` unbound.
OrchLoad ==
    LET r == run["orch"] IN
    /\ r.pc = "load"
    /\ run' = [run EXCEPT !["orch"] =
                  IF r.arg \in DOMAIN row
                      THEN [r EXCEPT !.pc = "started", !.loaded = TRUE,
                                     !.inst = row[r.arg]]
                      ELSE Ended(r, "UnboundLocalError")]
    /\ UNCHANGED <<row, events, now, cloud_failed>>
    /\ UNCHANGED <<dvars, cvars, mvars, kvars>>

\* Lines 29-31
OrchMarkStarted ==
    LET r == run["orch"]
        r1 == set_infrastructure_status(r, "provisioning")
        r2 == [r1 EXCEPT !.inst.provisioning_started_at = <<now>>]
    IN
    /\ r.pc = "started"
    /\ row' = save(r.arg, r2.inst)
    /\ run' = [run EXCEPT !["orch"] = [r2 EXCEPT !.pc = "log_started"]]
    /\ UNCHANGED <<events, now, cloud_failed>>
    /\ UNCHANGED <<dvars, cvars, mvars, kvars>>

\* Lines 34-38.  When the event is created the run goes on to the group of
\* creation tasks (lines 40-57); otherwise the TypeError enters the handler.
OrchLogStarted ==
    LET r == run["orch"] IN
    /\ r.pc = "log_started"
    /\ IF TenantEvent_create_accepts({"tenant", "event_type", "details"})
           THEN /\ events' = events \cup
                      {[tenant |-> r.arg, event_type |-> "provisioning_started",
                        duration_minutes |-> 0]}
                /\ run' = [run EXCEPT !["orch"] = [r EXCEPT !.pc = "group"]]
           ELSE /\ events' = events
                /\ run' = [run EXCEPT !["orch"] =
                              [r EXCEPT !.pc = "failing", !.exc = "TypeError"]]
    /\ UNCHANGED <<row, now, cloud_failed>>
    /\ UNCHANGED <<dvars, cvars, mvars, kvars>>

\* Lines 63-64
OrchMarkFailed ==
    LET r == run["orch"]
        r1 == set_infrastructure_status(r, "failed")
    IN
    /\ r.pc = "failing"
    /\ row' = save(r.arg, r1.inst)
    /\ run' = [run EXCEPT !["orch"] = [r1 EXCEPT !.pc = "log_failed"]]
    /\ UNCHANGED <<events, now, cloud_failed>>
    /\ UNCHANGED <<dvars, cvars, mvars, kvars>>

\* self.retry (line 75): the task is queued again while retries are left,
\* otherwise the original exception is raised
retry(r) ==
    IF r.retries < max_retries
        THEN [IdleRun EXCEPT !.pc = "load", !.arg = r.arg,
                             !.retries = r.retries + 1,
                             !.countdown = 60 * (r.retries + 1)]
        ELSE Ended(r, r.exc)

\* Lines 67-75.  A TypeError from the create leaves the handler before the
\* retry is requested.
OrchLogFailed ==
    LET r == run["orch"] IN
    /\ r.pc = "log_failed"
    /\ IF TenantEvent_create_accepts(
              {"tenant", "event_type", "severity", "details"})
           THEN /\ events' = events \cup
                      {[tenant |-> r.arg, event_type |-> "infrastructure_failed",
                        duration_minutes |-> 0]}
                /\ run' = [run EXCEPT !["orch"] = retry(r)]
           ELSE /\ events' = events
                /\ run' = [run EXCEPT !["orch"] = Ended(r, "TypeError")]
    /\ UNCHANGED <<row, now, cloud_failed>>
    /\ UNCHANGED <<dvars, cvars, mvars, kvars>>

\* ---- configure_tenant_resources ----

\* Line 379, outside the try block
ConfLoad ==
    LET r == run["conf"] IN
    /\ r.pc = "load"
    /\ run' = [run EXCEPT !["conf"] =
                  IF r.arg \in DOMAIN row
                      THEN [r EXCEPT !.pc = "wait_rds", !.loaded = TRUE,
                                     !.inst = row[r.arg]]
                      ELSE Ended(r, "DoesNotExist")]
    /\ UNCHANGED <<row, events, now, cloud_failed>>
    /\ UNCHANGED <<dvars, cvars, mvars, kvars>>

\* What the cloud answers to the successive status checks: "creating" up to
\* some check (the first, the last, or none), then "available" or an error
\* from the describe call
Answers(max_attempts) ==
    {[i \in 1..max_attempts |-> IF i < k THEN "creating" ELSE last] :
        k \in {1, max_attempts, max_attempts + 1},
        last \in {"available", "gone"}}

\* A loop that gives up one check early
RECURSIVE poll_stops_early(_, _, _)
poll_stops_early(attempt, answer, max_attempts) ==
    IF attempt >= max_attempts
        THEN [outcome |-> "TimeoutError", checks |-> attempt - 1]
    ELSE IF answer[attempt] = "gone"
        THEN [outcome |-> "ClientError", checks |-> attempt]
    ELSE IF answer[attempt] = "available"
        THEN [outcome |-> "available", checks |-> attempt]
    ELSE poll_stops_early(attempt + 1, answer, max_attempts)

\* The loop of wait_for_rds_available / wait_for_elasticache_available
RECURSIVE poll(_, _, _)
poll(attempt, answer, max_attempts) ==
    IF attempt > max_attempts
        THEN [outcome |-> "TimeoutError", checks |-> max_attempts]
    ELSE IF answer[attempt] = "gone"
        THEN [outcome |-> "ClientError", checks |-> attempt]
    ELSE IF answer[attempt] = "available"
        THEN [outcome |-> "available", checks |-> attempt]
    ELSE poll(attempt + 1, answer, max_attempts)

\* Line 384: wait_for_rds_available(tenant)
ConfWaitRds(answer) ==
    LET r == run["conf"]
        res == poll(1, answer, RDS_MAX_ATTEMPTS)
        r1 == [r EXCEPT !.inst.rds_endpoint = "rds-address",
                        !.checks = res.checks]
    IN
    /\ r.pc = "wait_rds"
    /\ IF res.outcome = "available"
           THEN /\ row' = save(r.arg, r1.inst)
                /\ run' = [run EXCEPT !["conf"] =
                              [r1 EXCEPT !.pc = "wait_cache"]]
                /\ UNCHANGED cloud_failed
           ELSE /\ run' = [run EXCEPT !["conf"] =
                              [r EXCEPT !.pc = "failing",
                                        !.exc = res.outcome,
                                        !.checks = res.checks]]
                /\ cloud_failed' = TRUE
                /\ UNCHANGED row
    /\ UNCHANGED <<events, now>>
    /\ UNCHANGED <<dvars, cvars, mvars, kvars>>

\* Line 387: wait_for_elasticache_available(tenant)
ConfWaitCache(answer) ==
    LET r == run["conf"]
        res == poll(1, answer, CACHE_MAX_ATTEMPTS)
        r1 == [r EXCEPT !.inst.redis_endpoint = "redis-address",
                        !.checks = res.checks]
    IN
    /\ r.pc = "wait_cache"
    /\ IF res.outcome = "available"
           THEN /\ row' = save(r.arg, r1.inst)
                /\ run' = [run EXCEPT !["conf"] = [r1 EXCEPT !.pc = "store"]]
                /\ UNCHANGED cloud_failed
           ELSE /\ run' = [run EXCEPT !["conf"] =
                              [r EXCEPT !.pc = "failing",
                                        !.exc = res.outcome,
                                        !.checks = res.checks]]
                /\ cloud_failed' = TRUE
                /\ UNCHANGED row
    /\ UNCHANGED <<events, now>>
    /\ UNCHANGED <<dvars, cvars, mvars, kvars>>

\* Line 390: store_tenant_credentials(tenant); a create_secret call may
\* raise, otherwise the instance is saved (the secret ARNs it records are
\* not among the fields kept here)
ConfStoreCredentials(outcome) ==
    LET r == run["conf"] IN
    /\ r.pc = "store"
    /\ IF outcome = "ok"
           THEN /\ row' = save(r.arg, r.inst)
                /\ run' = [run EXCEPT !["conf"] = [r EXCEPT !.pc = "migrate"]]
                /\ UNCHANGED cloud_failed
           ELSE /\ run' = [run EXCEPT !["conf"] =
                              [r EXCEPT !.pc = "failing",
                                        !.exc = "ClientError"]]
                /\ cloud_failed' = TRUE
                /\ UNCHANGED row
    /\ UNCHANGED <<events, now>>
    /\ UNCHANGED <<dvars, cvars, mvars, kvars>>

\* Line 393: run_tenant_migrations(tenant)
ConfMigrate(outcome) ==
    LET r == run["conf"] IN
    /\ r.pc = "migrate"
    /\ IF outcome = "ok"
           THEN /\ run' = [run EXCEPT !["conf"] = [r EXCEPT !.pc = "activate"]]
                /\ UNCHANGED cloud_failed
           ELSE /\ run' = [run EXCEPT !["conf"] =
                              [r EXCEPT !.pc = "failing",
                                        !.exc = "OperationalError"]]
                /\ cloud_failed' = TRUE
    /\ UNCHANGED <<row, events, now>>
    /\ UNCHANGED <<dvars, cvars, mvars, kvars>>

\* duration_minutes of the completed event (lines 407-411), in clock units
duration_minutes(inst) ==
    inst.provisioning_completed_at[1] - inst.provisioning_started_at[1]

\* Lines 396-417.  Line 400 calls tenant.calculate_estimated_cost(); when
\* Tenant has no such method the AttributeError enters the handler before
\* the save of line 401.
ConfActivate ==
    LET r == run["conf"]
        r1 == set_infrastructure_status(r, "active")
        r2 == [r1 EXCEPT !.inst.is_active = TRUE,
                         !.inst.provisioning_completed_at = <<now>>,
                         !.inst.activated_at = <<now>>]
    IN
    /\ r.pc = "activate"
    /\ IF "calculate_estimated_cost" \notin TenantMethods
           THEN /\ run' = [run EXCEPT !["conf"] =
                              [r2 EXCEPT !.pc = "failing",
                                         !.exc = "AttributeError"]]
                /\ UNCHANGED <<row, events>>
           ELSE /\ row' = save(r.arg, r2.inst)
                /\ IF /\ TenantEvent_create_accepts(
                             {"tenant", "event_type", "details"})
                      /\ r2.inst.provisioning_started_at # NullTime
                       THEN /\ events' = events \cup
                                  {[tenant |-> r.arg,
                                    event_type |-> "provisioning_completed",
                                    duration_minutes |->
                                        duration_minutes(r2.inst)]}
                            /\ run' = [run EXCEPT !["conf"] = Ended(r2, None)]
                       ELSE /\ events' = events
                            /\ run' = [run EXCEPT !["conf"] =
                                          [r2 EXCEPT !.pc = "failing",
                                                     !.exc = "TypeError"]]
    /\ UNCHANGED <<now, cloud_failed>>
    /\ UNCHANGED <<dvars, cvars, mvars, kvars>>

\* Lines 419-425
ConfMarkFailed ==
    LET r == run["conf"]
        r1 == set_infrastructure_status(r, "failed")
    IN
    /\ r.pc = "failing"
    /\ row' = save(r.arg, r1.inst)
    /\ run' = [run EXCEPT !["conf"] = Ended(r1, r1.exc)]
    /\ UNCHANGED <<events, now, cloud_failed>>
    /\ UNCHANGED <<dvars, cvars, mvars, kvars>>

\* ---- deprovision_tenant_infrastructure ----

\* Reading tenant.infrastructure_status (line 436): an instance that was
\* never assigned the attribute has none
read_infrastructure_status(r) ==
    IF "infrastructure_status" \in TenantFields
           \/ r.extra.infrastructure_status # Unset
        THEN [exc |-> None, value |-> CurStatus(r)]
        ELSE [exc |-> "AttributeError", value |-> None]

\* Lines 434-441
Deprovision ==
    LET r == run["deprov"]
        r1 == [r EXCEPT !.loaded = TRUE, !.inst = row[r.arg]]
        status == read_infrastructure_status(r1)
    IN
    /\ r.pc = "load"
    /\ run' = [run EXCEPT !["deprov"] =
                  IF r.arg \notin DOMAIN row
                      THEN Ended(r, "DoesNotExist")
                  ELSE IF status.exc # None
                      THEN Ended(r1, status.exc)
                  ELSE IF status.value # "suspended"
                      THEN Ended(r1, "ValueError")
                  ELSE Ended(r1, None)]
    /\ UNCHANGED <<row, events, now, cloud_failed>>
    /\ UNCHANGED <<dvars, cvars, mvars, kvars>>

\* ---- The resource creation tasks (tasks.py:78-371) ----

\* Creation tasks running at the same time
MaxCreating == 2

CreateKinds == {"kms", "rds", "s3", "cache"}

\* response["KeyMetadata"]["KeyId"] of create_key
key_id(tid) == IF tid = "acme" THEN "key-acme" ELSE "key"

\* f"mate-{tenant.subdomain}-db", f"mate-{tenant.subdomain}-{suffix}",
\* f"mate-{tenant.subdomain}-redis"
instance_id(tid) == IF tid = "acme" THEN "mate-acme-db" ELSE "mate-db"

bucket_name(tid) == IF tid = "acme" THEN "mate-acme-x1" ELSE "mate-x1"

cluster_id(tid) == IF tid = "acme" THEN "mate-acme-redis" ELSE "mate-redis"

\* One run of a creation task: inst its local `tenant`, extra the
\* attributes assigned on the instance that are not fields
IdleCreate ==
    [pc |-> "idle", arg |-> "", inst |-> NewTenant("pending"),
     extra |-> [kms_key_arn |-> Unset], exc |-> None]

CreateEnded(c, exc) ==
    [IdleCreate EXCEPT !.pc = "done", !.arg = c.arg, !.exc = exc]

Creating == {k \in CreateKinds : create[k].pc # "idle"}

\* A call to the cloud provider; key is the KMS key the call names, Absent
\* when the call has no such parameter
Call(api, tid, key) == [api |-> api, tenant |-> tid, key |-> key]

\* TenantInfrastructureResource.objects.create(...): status is not passed
\* and takes its default
Resource(tid, resource_type, resource_id) ==
    [tenant |-> tid, resource_type |-> resource_type,
     resource_id |-> resource_id, status |-> "creating"]

\* The provider refuses a second alias, or a second replication group, of
\* a name it already has: such a call raises ClientError
NameTaken(api, tid, key) == Call(api, tid, key) \in cloud

\* tenant.kms_key_arn read on the local instance: kms_key_arn is not in
\* TenantFields, so it exists only where this run assigned it
read_kms_key_arn(c) ==
    IF "kms_key_arn" \in TenantFields \/ c.extra.kms_key_arn # Unset
        THEN [exc |-> None, value |-> c.extra.kms_key_arn]
        ELSE [exc |-> "AttributeError", value |-> None]

\* A creation task is invoked with a tenant id
CreateStart(k, tid) ==
    /\ create[k].pc = "idle"
    /\ Cardinality(Creating) < MaxCreating
    /\ create' = [create EXCEPT ![k] =
                     [IdleCreate EXCEPT !.pc = "load", !.arg = tid]]
    /\ UNCHANGED <<cloud, resources>>
    /\ UNCHANGED <<dvars, pvars, cvars, mvars>>

\* tenant = Tenant.objects.get(id=tenant_id), before the try block
CreateLoad(k) ==
    LET c == create[k]
    IN
    /\ c.pc = "load"
    /\ create' = [create EXCEPT ![k] =
                     IF c.arg \notin DOMAIN row
                         THEN CreateEnded(c, "DoesNotExist")
                         ELSE [c EXCEPT !.pc = "create", !.inst = row[c.arg]]]
    /\ UNCHANGED <<cloud, resources>>
    /\ UNCHANGED <<dvars, pvars, cvars, mvars>>

\* provision_kms lines 327-352: create_key, create_alias,
\* enable_key_rotation
KmsCreateKey(outcome) ==
    LET c == create["kms"]
    IN
    /\ c.pc = "create"
    /\ outcome = "ok" => ~NameTaken("create_alias", c.arg, key_id(c.arg))
    /\ IF outcome = "ok"
           THEN /\ cloud' = cloud \cup
                       {Call("create_key", c.arg, Absent),
                        Call("create_alias", c.arg, key_id(c.arg)),
                        Call("enable_key_rotation", c.arg, key_id(c.arg))}
                /\ create' = [create EXCEPT !["kms"].pc = "store"]
                /\ UNCHANGED cloud_failed
           ELSE /\ create' = [create EXCEPT !["kms"] =
                                 CreateEnded(c, "ClientError")]
                /\ cloud_failed' = TRUE
                /\ UNCHANGED cloud
    /\ UNCHANGED <<row, events, run, now, resources>>
    /\ UNCHANGED <<dvars, cvars, mvars>>

\* provision_kms lines 354-366: kms_key_id is a field and is saved, the
\* kms_key_arn assigned next to it is not
KmsStore ==
    LET c == create["kms"]
        inst == [c.inst EXCEPT !.kms_key_id = key_id(c.arg)]
    IN
    /\ c.pc = "store"
    /\ row' = save(c.arg, inst)
    /\ resources' = resources \cup {Resource(c.arg, "kms_key", key_id(c.arg))}
    /\ create' = [create EXCEPT !["kms"] = CreateEnded(c, None)]
    /\ UNCHANGED <<events, run, now, cloud_failed, cloud>>
    /\ UNCHANGED <<dvars, cvars, mvars>>

\* provision_rds lines 95-140: the arguments of create_db_instance are
\* evaluated before the call is made (lines 124-136 follow a call that was
\* made)
RdsCreate ==
    LET c == create["rds"]
        key == read_kms_key_arn(c)
    IN
    /\ c.pc = "create"
    /\ IF key.exc # None
           THEN /\ create' = [create EXCEPT !["rds"] =
                                 CreateEnded(c, key.exc)]
                /\ UNCHANGED cloud
           ELSE /\ cloud' = cloud \cup
                       {Call("create_db_instance", c.arg, key.value)}
                /\ create' = [create EXCEPT !["rds"].pc = "store"]
    /\ UNCHANGED <<resources>>
    /\ UNCHANGED <<dvars, pvars, cvars, mvars>>

\* provision_s3 lines 158-172: create_bucket, put_bucket_versioning
S3CreateBucket(outcome) ==
    LET c == create["s3"]
    IN
    /\ c.pc = "create"
    /\ IF outcome = "ok"
           THEN /\ cloud' = cloud \cup
                       {Call("create_bucket", c.arg, Absent),
                        Call("put_bucket_versioning", c.arg, Absent)}
                /\ create' = [create EXCEPT !["s3"].pc = "encrypt"]
                /\ UNCHANGED cloud_failed
           ELSE /\ create' = [create EXCEPT !["s3"] =
                                 CreateEnded(c, "ClientError")]
                /\ cloud_failed' = TRUE
                /\ UNCHANGED cloud
    /\ UNCHANGED <<row, events, run, now, resources>>
    /\ UNCHANGED <<dvars, cvars, mvars>>

\* provision_s3 lines 174-185: put_bucket_encryption names
\* tenant.kms_key_arn (lines 187-249 follow a call that was made)
S3Encrypt ==
    LET c == create["s3"]
        key == read_kms_key_arn(c)
    IN
    /\ c.pc = "encrypt"
    /\ IF key.exc # None
           THEN /\ create' = [create EXCEPT !["s3"] =
                                 CreateEnded(c, key.exc)]
                /\ UNCHANGED cloud
           ELSE /\ cloud' = cloud \cup
                       {Call("put_bucket_encryption", c.arg, key.value)}
                /\ create' = [create EXCEPT !["s3"].pc = "harden"]
    /\ UNCHANGED <<resources>>
    /\ UNCHANGED <<dvars, pvars, cvars, mvars>>

\* provision_elasticache lines 271-294: create_replication_group
CacheCreate(outcome) ==
    LET c == create["cache"]
    IN
    /\ c.pc = "create"
    /\ outcome = "ok" =>
           ~NameTaken("create_replication_group", c.arg, Absent)
    /\ IF outcome = "ok"
           THEN /\ cloud' = cloud \cup
                       {Call("create_replication_group", c.arg, Absent)}
                /\ create' = [create EXCEPT !["cache"].pc = "store"]
                /\ UNCHANGED cloud_failed
           ELSE /\ create' = [create EXCEPT !["cache"] =
                                 CreateEnded(c, "ClientError")]
                /\ cloud_failed' = TRUE
                /\ UNCHANGED cloud
    /\ UNCHANGED <<row, events, run, now, resources>>
    /\ UNCHANGED <<dvars, cvars, mvars>>

\* provision_elasticache lines 296-306
CacheStore ==
    LET c == create["cache"]
        inst == [c.inst EXCEPT !.redis_cluster_id = cluster_id(c.arg)]
    IN
    /\ c.pc = "store"
    /\ row' = save(c.arg, inst)
    /\ resources' = resources \cup
           {Resource(c.arg, "elasticache_cluster", cluster_id(c.arg))}
    /\ create' = [create EXCEPT !["cache"] = CreateEnded(c, None)]
    /\ UNCHANGED <<events, run, now, cloud_failed, cloud>>
    /\ UNCHANGED <<dvars, cvars, mvars>>

\* The result of a finished creation task is collected
CreateCollect(k) ==
    /\ create[k].pc = "done"
    /\ create' = [create EXCEPT ![k] = IdleCreate]
    /\ UNCHANGED <<cloud, resources>>
    /\ UNCHANGED <<dvars, pvars, cvars, mvars>>

\* No creation task is running, no call was issued, no resource recorded
CreateQuiet ==
    /\ create = [k \in CreateKinds |-> IdleCreate]
    /\ cloud = {}
    /\ resources = {}

CreateNext ==
    \/ \E k \in CreateKinds, tid \in ProvTenantIds \cup ProvMissingIds :
           CreateStart(k, tid)
    \/ \E k \in CreateKinds : CreateLoad(k)
    \/ \E outcome \in {"ok", "fails"} : KmsCreateKey(outcome)
    \/ KmsStore
    \/ RdsCreate
    \/ \E outcome \in {"ok", "fails"} : S3CreateBucket(outcome)
    \/ S3Encrypt
    \/ \E outcome \in {"ok", "fails"} : CacheCreate(outcome)
    \/ CacheStore
    \/ \E k \in CreateKinds : CreateCollect(k)

\* The steps a running task takes by itself
OrchStep ==
    \/ OrchLoad
    \/ OrchMarkStarted
    \/ OrchLogStarted
    \/ OrchMarkFailed
    \/ OrchLogFailed

ConfStep ==
    \/ ConfLoad
    \/ \E answer \in Answers(RDS_MAX_ATTEMPTS) : ConfWaitRds(answer)
    \/ \E answer \in Answers(CACHE_MAX_ATTEMPTS) : ConfWaitCache(answer)
    \/ \E outcome \in {"ok", "fails"} : ConfStoreCredentials(outcome)
    \/ \E outcome \in {"ok", "fails"} : ConfMigrate(outcome)
    \/ ConfActivate
    \/ ConfMarkFailed

ProvInit ==
    /\ store = [th \in Threads |-> Unset]
    /\ pc = [th \in Threads |-> "idle"]
    /\ frame = [th \in Threads |-> NoFrame]
    /\ calllog = [th \in Threads |-> <<>>]
    /\ broker = <<>>
    /\ isolation = "unset"
    /\ row \in [ProvTenantIds -> {NewTenant(st) : st \in DEPLOYMENT_STATUS_CHOICES}]
    /\ events = {}
    /\ run = [k \in ProvKinds |-> IdleRun]
    /\ now = 0
    /\ cloud_failed = FALSE
    /\ CredQuiet
    /\ MwQuiet
    /\ CreateQuiet

ProvNext ==
    \/ \E k \in ProvKinds, tid \in ProvTenantIds \cup ProvMissingIds :
           Start(k, tid)
    \/ \E k \in ProvKinds : Collect(k)
    \/ Tick
    \/ OrchStep
    \/ ConfStep
    \/ Deprovision

ProvSpec == ProvInit /\ [][ProvNext]_vars

\* A worker that has taken a task keeps running it
ProvFairSpec ==
    /\ ProvSpec
    /\ WF_vars(OrchStep)
    /\ WF_vars(ConfStep)
    /\ WF_vars(Deprovision)

\* The pollers alone: configure_tenant_resources run up to the end of its
\* two waits, against every answer pattern of the cloud: "available" or an
\* error at check k (for every k, or at no check), "creating" at the others
PollAnswers(max_attempts) ==
    {[i \in 1..max_attempts |-> IF i = k THEN kth ELSE "creating"] :
        k \in 1..(max_attempts + 1), kth \in {"available", "gone"}}

PollNext ==
    \/ \E tid \in ProvTenantIds \cup ProvMissingIds : Start("conf", tid)
    \/ ConfLoad
    \/ \E answer \in PollAnswers(RDS_MAX_ATTEMPTS) : ConfWaitRds(answer)
    \/ \E answer \in PollAnswers(CACHE_MAX_ATTEMPTS) : ConfWaitCache(answer)
    \/ ConfMarkFailed
    \/ Collect("conf")

\* The pollers do not read the deployment status: one newly created tenant
PollInit ==
    /\ ProvInit
    /\ row = [t \in ProvTenantIds |-> NewTenant("pending")]

PollSpec == PollInit /\ [][PollNext]_vars

\* No provisioning task is running and the tables are as created
ProvQuiet ==
    /\ row = [t \in ProvTenantIds |-> NewTenant("pending")]
    /\ events = {}
    /\ run = [k \in ProvKinds |-> IdleRun]
    /\ now = 0
    /\ cloud_failed = FALSE

CredNext ==
    \/ \E u \in Resolvers, t \in CredTenants : ResolveStart(u, t)
    \/ \E u \in Resolvers : ResolveLookup(u)
    \/ \E u \in Resolvers, response \in SecretResponses :
           ResolveFetch(u, response)
    \/ \E u \in Resolvers : ResolveParse(u)
    \/ \E u \in Resolvers : ResolveEnd(u)
    \/ \E k \in ClearArgs : ClearCache(k)

-----------------------------------------------------------------------------

Init ==
    /\ store = [th \in Threads |-> Unset]
    /\ pc = [th \in Threads |-> "idle"]
    /\ frame = [th \in Threads |-> NoFrame]
    /\ calllog = [th \in Threads |-> <<>>]
    /\ broker = <<>>
    /\ isolation = "unset"
    /\ ProvQuiet
    /\ CredQuiet
    /\ MwQuiet
    /\ CreateQuiet

\* Worker threads running jobs
Next ==
    \/ \E th \in Threads, tid \in PayloadIds : Invoke(th, tid)
    \/ \E th \in Threads : BodyReturn(th)
    \/ \E th \in Threads, e \in BodyExceptions : BodyRaise(th, e)
    \/ \E th \in Threads : Reap(th)
    \/ \E th \in Threads, t \in TenantIds \cup {None} : SetCurrentTenant(th, t)
    \/ \E th \in Threads : ClearCurrentTenant(th)

Spec == Init /\ [][Next]_vars

\* Threads submitting jobs
SubmitNext ==
    \/ \E th \in Threads, t \in TenantIds \cup {None} : SetCurrentTenant(th, t)
    \/ \E th \in Threads : ClearCurrentTenant(th)
    \/ \E th \in Threads, kw \in CallerKwargs, o \in OptionValues : ApplyAsync(th, kw, o)
    \/ Deliver

SubmitInit ==
    /\ store = [th \in Threads |-> Unset]
    /\ pc = [th \in Threads |-> "idle"]
    /\ frame = [th \in Threads |-> NoFrame]
    /\ calllog = [th \in Threads |-> <<>>]
    /\ broker = <<>>
    /\ isolation \in {"unset", "true", "false"}
    /\ ProvQuiet
    /\ CredQuiet
    /\ MwQuiet
    /\ CreateQuiet

SubmitSpec == SubmitInit /\ [][SubmitNext]_vars

\* Calls of get_tenant_db_config and clear_db_config_cache
CredSpec == Init /\ [][CredNext]_vars

\* Requests through the tenant resolver: the process environment and the
\* stored state of tenant A are fixed when the process starts
MwInit ==
    /\ store = [th \in Threads |-> Unset]
    /\ pc = [th \in Threads |-> "idle"]
    /\ frame = [th \in Threads |-> NoFrame]
    /\ calllog = [th \in Threads |-> <<>>]
    /\ broker = <<>>
    /\ isolation = "unset"
    /\ row = [t \in ProvTenantIds |-> NewTenant("pending")]
    /\ events = {}
    /\ run = [k \in ProvKinds |-> IdleRun]
    /\ now \in 0..MaxTime
    /\ cloud_failed = FALSE
    /\ CredQuiet
    /\ environ \in EnvValues
    /\ \E u \in Usabilities :
           site = [t \in MwTenantIds |->
                      IF t = "idA" THEN u
                      ELSE [is_active |-> TRUE, deployment_status |-> "active"]]
    /\ members = NewMembers
    /\ request = NoRequest
    /\ CreateQuiet

MwNext ==
    \/ \E in \in RequestInputs : ReceiveRequest(in)
    \/ ProcessRequest
    \/ EndRequest

MwSpec == MwInit /\ [][MwNext]_vars

\* The resource creation tasks, started in any order and at any time
CreateSpec == Init /\ [][CreateNext]_vars

\* The cache cluster of a tenant: its creation task and the pollers of
\* configure_tenant_resources
RecordNext ==
    \/ \E tid \in ProvTenantIds : CreateStart("cache", tid)
    \/ CreateLoad("cache")
    \/ \E outcome \in {"ok", "fails"} : CacheCreate(outcome)
    \/ CacheStore
    \/ CreateCollect("cache")
    \/ PollNext

RecordSpec == Init /\ [][RecordNext]_vars

-----------------------------------------------------------------------------
(* Claims about the dispatcher's execution side (Spec) *)

Finished(th) == pc[th] = "done"
InBody(th) == pc[th] = "run"
Warned(th) ==
    \E i \in 1..Len(calllog[th]) : calllog[th][i].level = "warning"
ErrorRecords(th) ==
    {i \in 1..Len(calllog[th]) : calllog[th][i].level = "error"}

\* C1: once __call__ has finished for a job whose payload named an existing
\* tenant, get_current_tenant() returns None on that thread, whether the job
\* body returned or raised.
C1_ContextClearedAfterCall ==
    \A th \in Threads :
        (Finished(th) /\ frame[th].tenant # None) =>
            /\ frame[th].outcome \in {"returned", "raised"}
            /\ get_current_tenant(th) = None

\* One job with a tenant has returned and another has raised.
C1_Witness ==
    \E a, b \in Threads :
        /\ Finished(a) /\ frame[a].tenant # None /\ frame[a].outcome = "returned"
        /\ Finished(b) /\ frame[b].tenant # None /\ frame[b].outcome = "raised"
        /\ frame[b].body_exc \in BodyExceptions

\* C2: inside the body of a job whose payload carries _tenant_id = str(T.id),
\* get_current_tenant() is T on that thread, whatever jobs ran before on the
\* thread and whatever other threads are running.
C2_BodySeesOwnTenant ==
    \A th \in Threads :
        (InBody(th) /\ Truthy(frame[th].tenant_id)) =>
            /\ get_current_tenant(th) \in TenantIds
            /\ UuidStr(get_current_tenant(th)) = frame[th].tenant_id

\* Two threads are inside job bodies of two different tenants at once.
C2_Witness ==
    \E a, b \in Threads :
        /\ InBody(a) /\ InBody(b)
        /\ frame[a].tenant \in TenantIds /\ frame[b].tenant \in TenantIds
        /\ frame[a].tenant # frame[b].tenant

\* C5 as claimed: in the body of a job invoked without a tenant identifier a
\* warning has been logged and get_current_tenant() returns None, whatever
\* was executed or set earlier on the thread.
C5_NeverInheritsStaleTenant ==
    \A th \in Threads :
        (InBody(th) /\ ~Truthy(frame[th].tenant_id)) =>
            /\ Warned(th)
            /\ get_current_tenant(th) = None

\* C5 as amended: a job invoked without a tenant identifier logs a warning
\* and enters its body with the thread's store exactly as it was on entry,
\* the store keeps that value while the body runs, and every job that ends
\* leaves the store empty; so the body sees None after any sequence of jobs
\* run through __call__, and sees a tenant only if one was left in the store
\* by a direct set_current_tenant.
C5_BodyRunsWithStoreAsOnEntry ==
    [][\A th \in Threads :
        /\ (pc[th] = "idle" /\ pc'[th] # "idle" /\ ~Truthy(frame'[th].tenant_id)) =>
              /\ pc'[th] = "run"
              /\ Warned(th)'
              /\ store'[th] = store[th]
        /\ (InBody(th) /\ InBody(th)') => store'[th] = store[th]
        /\ (InBody(th) /\ Finished(th)') => get_current_tenant(th)' = None
      ]_vars

\* A job without tenant identifier is in its body, warned, with no tenant.
C5_Witness ==
    \E th \in Threads :
        /\ InBody(th) /\ ~Truthy(frame[th].tenant_id)
        /\ Warned(th)
        /\ get_current_tenant(th) = None

\* C6: a call whose payload names a tenant identifier with no tenant row
\* raises Tenant.DoesNotExist without running the job body and without
\* writing the context store.
C6_MissingTenantFailsHard ==
    [][\A th \in Threads :
        (/\ pc[th] = "idle" /\ pc'[th] # "idle"
         /\ Truthy(frame'[th].tenant_id)
         /\ TenantsWithId(frame'[th].tenant_id) = {}) =>
            /\ Finished(th)'
            /\ frame'[th].outcome = "raised"
            /\ frame'[th].exc = "DoesNotExist"
            /\ ~frame'[th].ran
            /\ store' = store
      ]_vars

\* A call for a missing tenant has ended.
C6_Witness ==
    \E th \in Threads :
        /\ Finished(th)
        /\ Truthy(frame[th].tenant_id)
        /\ TenantsWithId(frame[th].tenant_id) = {}
        /\ frame[th].exc = "DoesNotExist"

\* C7: when the job body raised e, __call__ has logged exactly one error
\* record, carrying the tenant's subdomain and e, and has raised e itself.
C7_BodyExceptionLoggedAndReraised ==
    \A th \in Threads :
        (Finished(th) /\ frame[th].body_exc # None) =>
            /\ frame[th].outcome = "raised"
            /\ frame[th].exc = frame[th].body_exc
            /\ Cardinality(ErrorRecords(th)) = 1
            /\ \A i \in ErrorRecords(th) :
                  /\ calllog[th][i].detail = frame[th].body_exc
                  /\ frame[th].tenant # None =>
                        calllog[th][i].tenant = subdomain(frame[th].tenant)

\* The body of a job with a tenant has raised.
C7_Witness ==
    \E th \in Threads :
        /\ Finished(th)
        /\ frame[th].tenant \in TenantIds
        /\ frame[th].body_exc \in BodyExceptions

-----------------------------------------------------------------------------
(* Claims about the dispatcher's submission side (SubmitSpec) *)

Messages == {broker[i] : i \in 1..Len(broker)}

\* The queue name the requested options stand for before any rewriting
RequestedName(options) ==
    IF options.has_queue THEN options.queue ELSE <<"default">>

\* A name without "-" is a single segment
HyphenFree(name) == Len(name) = 1

\* The queue names apply_async can give a tenant's job under isolation
QueuesOf(t) == {route_queue(t, o).queue : o \in OptionValues}
HyphenFreeQueuesOf(t) ==
    {route_queue(t, o).queue :
        o \in {x \in OptionValues : HyphenFree(RequestedName(x))}}

\* Submissions made with tenant T in the store: under isolation the queue is
\* T.subdomain-requested (or T.subdomain-default), otherwise the options are
\* the caller's.
RoutedAsSpecified(m) ==
    IF IsolationEnabled
    THEN /\ m.options.has_queue
         /\ m.options.queue = subdomain(m.current) \o RequestedName(m.req_options)
    ELSE m.options = m.req_options

C4_IdentityInjection ==
    \A m \in Messages :
        IF Truthy(m.current)
        THEN /\ ~m.kwargs.is_none
             /\ m.kwargs.tenant_id = UuidStr(m.current)
             /\ m.kwargs.key = (IF m.req_kwargs.is_none THEN Absent ELSE m.req_kwargs.key)
        ELSE /\ m.kwargs = m.req_kwargs
             /\ m.kwargs.tenant_id = Absent
             /\ m.options = m.req_options

\* A submission with a tenant and own arguments is in flight.
C4_Witness ==
    \E m \in Messages :
        /\ m.current \in TenantIds
        /\ m.req_kwargs = Kw(Absent, "value")
        /\ m.kwargs.tenant_id = UuidStr(m.current)


\* ------------------------------------------------------------------
\* Provisioning claims
\* ------------------------------------------------------------------

\* The edges of the allowed deployment status graph
AllowedEdges ==
    {<<"pending", "provisioning">>, <<"provisioning", "active">>,
     <<"active", "suspended">>, <<"suspended", "terminated">>,
     <<"suspended", "active">>, <<"provisioning", "failed">>,
     <<"configuring", "failed">>}

\* C8: every change of the status a provisioning operation holds for its
\* tenant (provisioning start, failure, configuration success or failure) is
\* an edge of the allowed graph.
C8_StatusChangesFollowGraph ==
    [][\A k \in ProvKinds :
          (run[k].loaded /\ run'[k].loaded
              /\ CurStatus(run[k]) # CurStatus(run'[k]))
          => <<CurStatus(run[k]), CurStatus(run'[k])>> \in AllowedEdges]_vars

\* C9: deprovision_tenant_infrastructure completes without error for a
\* suspended tenant; for a tenant in any other status it fails with the
\* invalid-state error (ValueError); it changes no tenant or event record.
C9_DeprovisionIffSuspended ==
    [][(run["deprov"].pc = "load" /\ run'["deprov"].pc = "done"
           /\ run["deprov"].arg \in ProvTenantIds)
       => /\ run'["deprov"].exc =
                 IF row[run["deprov"].arg].deployment_status = "suspended"
                     THEN None ELSE "ValueError"
          /\ row' = row
          /\ events' = events]_vars

\* The orchestrator has been invoked for a tenant whose status is pending
ProvisioningRequested(t) ==
    /\ run["orch"].pc = "load"
    /\ run["orch"].arg = t
    /\ row[t].deployment_status = "pending"

\* The tenant is active and has a provisioning_completed event with a
\* non-negative duration
Provisioned(t) ==
    /\ row[t].deployment_status = "active"
    /\ \E e \in events :
           /\ e.tenant = t
           /\ e.event_type = "provisioning_completed"
           /\ e.duration_minutes >= 0

\* C10: once provisioning is requested for a pending tenant, then unless a
\* cloud call fails or a poller runs out of attempts, the tenant eventually
\* is active with a provisioning_completed event of non-negative duration.
C10_EndToEndSuccess ==
    \A t \in ProvTenantIds :
        ProvisioningRequested(t) ~> (Provisioned(t) \/ cloud_failed)


\* The orchestrator's exception handler (lines 59-75) finishes in this step
OrchHandlerEnds ==
    /\ run["orch"].pc = "log_failed"
    /\ run'["orch"].pc # "log_failed"

\* C11: when a provisioning attempt fails, the tenant's status becomes
\* failed, an infrastructure_failed event is recorded for the tenant, and the
\* orchestration hands the failure to the retry logic.
C11_FailureRecorded ==
    [][OrchHandlerEnds =>
          /\ row'[run["orch"].arg].deployment_status = "failed"
          /\ \E e \in events' :
                 /\ e.tenant = run["orch"].arg
                 /\ e.event_type = "infrastructure_failed"
          /\ \/ run'["orch"].retries = run["orch"].retries + 1
             \/ run["orch"].retries = max_retries]_vars


\* The first check that is answered "available", or 0 when none is
FirstAvailable(answer, max_attempts) ==
    LET S == {i \in 1..max_attempts : answer[i] = "available"} IN
    IF S = {} THEN 0 ELSE CHOOSE i \in S : \A j \in S : i <= j

\* None of the first n checks is answered with an error
NoErrorUpTo(answer, n) == \A i \in 1..n : answer[i] # "gone"

\* What a poller run r2 must look like after the cloud answered `answer`;
\* stored says that the endpoint is in the table after the step
CheckCountAsClaimed(answer, max_attempts, r2, stored) ==
    LET k == FirstAvailable(answer, max_attempts) IN
    IF k > 0 /\ NoErrorUpTo(answer, k)
        THEN /\ r2.checks = k
             /\ r2.pc # "failing"
             /\ r2.exc = None
             /\ stored
    ELSE IF k = 0 /\ NoErrorUpTo(answer, max_attempts)
        THEN /\ r2.checks = max_attempts
             /\ r2.pc = "failing"
             /\ r2.exc = "TimeoutError"
             /\ row' = row
    ELSE TRUE

\* C12: wait_for_rds_available (60 attempts) and
\* wait_for_elasticache_available (30 attempts) make exactly k status checks
\* when the k-th is the first answered "available", then store the endpoint
\* and return; when none is, they make exactly max-attempts checks and raise
\* TimeoutError.
C12_PollerCheckCount ==
    [][/\ \A answer \in PollAnswers(RDS_MAX_ATTEMPTS) :
              ConfWaitRds(answer) =>
                  CheckCountAsClaimed(answer, RDS_MAX_ATTEMPTS, run'["conf"],
                      row'[run["conf"].arg].rds_endpoint # "")
       /\ \A answer \in PollAnswers(CACHE_MAX_ATTEMPTS) :
              ConfWaitCache(answer) =>
                  CheckCountAsClaimed(answer, CACHE_MAX_ATTEMPTS, run'["conf"],
                      row'[run["conf"].arg].redis_endpoint # "")]_vars

\* Both pollers returned, the cache poller at its last permitted check
C12_Witness ==
    /\ run["conf"].pc = "store"
    /\ run["conf"].checks = CACHE_MAX_ATTEMPTS
    /\ row[run["conf"].arg].rds_endpoint # ""
    /\ row[run["conf"].arg].redis_endpoint # ""


\* ------------------------------------------------------------------
\* Credential resolver claims
\* ------------------------------------------------------------------

\* The call of unit u is contacting the secret store or reading its answer
ContactsStore(u) == resolver[u].pc \in {"fetch", "parse"}

\* C13 (as stated): a get_tenant_db_config call made after an earlier call
\* for the same tenant has ended, with no clear_db_config_cache in between,
\* does not contact the secret store.
C13_AtMostOneStoreCall ==
    \A u \in Resolvers : resolver[u].after # "no" => ~ContactsStore(u)

\* C13 (amended): a get_tenant_db_config call made after an earlier call for
\* the same tenant has returned a configuration, with no
\* clear_db_config_cache in between, does not contact the secret store and
\* returns a configuration.
C13_CacheHitAfterSuccess ==
    \A u \in Resolvers :
        resolver[u].after = "returned" =>
            /\ ~ContactsStore(u)
            /\ resolver[u].pc = "done" =>
                   /\ resolver[u].exc = None
                   /\ resolver[u].result # NoConfig

\* A second call has returned the cached credentials
C13_Witness ==
    \E u \in Resolvers :
        /\ resolver[u].after = "returned"
        /\ resolver[u].pc = "done"
        /\ resolver[u].result = db_config(resolver[u].tenant, "credentials")


\* Unit u leaves the cache lookup in this step, having found no entry
LookupMisses(u) ==
    /\ resolver[u].pc = "lookup"
    /\ resolver'[u].pc # "lookup"
    /\ cache[resolver[u].tenant] = NoEntry

\* C14: clear_db_config_cache(k) removes exactly the entry of key k (nothing
\* when k has none) and leaves every other entry unchanged;
\* clear_db_config_cache(None) removes all entries; a resolve that finds no
\* entry for a tenant with a secret fetches from the secret store.
C14_Invalidation ==
    [][/\ \A k \in ClearArgs :
              ClearCache(k) =>
                  IF k = None
                      THEN \A j \in CacheKeys : cache'[j] = NoEntry
                      ELSE /\ cache'[k] = NoEntry
                           /\ \A j \in CacheKeys \ {k} : cache'[j] = cache[j]
       /\ \A u \in Resolvers :
              (LookupMisses(u) /\ db_secret_arn(resolver[u].tenant) # "")
                  => resolver'[u].pc = "fetch"]_vars

\* The entry of acme has been cleared after a call returned it, and the
\* entry of beta is still there
C14_Witness ==
    \E u \in Resolvers :
        /\ resolver[u].pc = "done"
        /\ resolver[u].tenant = "acme"
        /\ resolver[u].result # NoConfig
        /\ cache["acme"] = NoEntry
        /\ cache["beta"] # NoEntry

\* Unit u finishes reading the secret store's answer in this step
ParseEnds(u) ==
    /\ resolver[u].pc = "parse"
    /\ resolver'[u].pc = "done"

\* A call for a tenant without secret reference fails with ValueError at the
\* lookup, without contacting the secret store and without adding an entry
NoSecretFailsEarly(u) ==
    (LookupMisses(u) /\ db_secret_arn(resolver[u].tenant) = "")
        => /\ resolver'[u].pc = "done"
           /\ resolver'[u].exc = "ValueError"
           /\ cache' = cache

\* C15 (as stated): resolving for a tenant without secret reference fails
\* without a secret-store call or cache entry, and a failed or malformed
\* secret-store response (a secret without the credentials included) raises
\* and adds no cache entry.
C15_BadSecretNeverCached ==
    [][\A u \in Resolvers :
          /\ NoSecretFailsEarly(u)
          /\ (ParseEnds(u) /\ resolver[u].response # "credentials")
                 => /\ resolver'[u].exc # None
                    /\ cache' = cache]_vars

\* The answers get_tenant_db_config cannot read: no answer, no SecretString,
\* not JSON, not a JSON object
Unreadable ==
    {"unreachable", "no_secret_string", "invalid_json", "not_an_object"}

\* C15 (amended): resolving for a tenant without secret reference fails
\* without a secret-store call or cache entry; an unreadable secret-store
\* response raises and adds no cache entry; a JSON object without the
\* credentials is accepted and cached with USER and PASSWORD None.
C15_UnreadableSecretNeverCached ==
    [][\A u \in Resolvers :
          /\ NoSecretFailsEarly(u)
          /\ (ParseEnds(u) /\ resolver[u].response \in Unreadable)
                 => /\ resolver'[u].exc # None
                    /\ resolver'[u].result = NoConfig
                    /\ cache' = cache
          /\ (ParseEnds(u) /\ resolver[u].response = "incomplete")
                 => /\ resolver'[u].exc = None
                    /\ cache'[resolver[u].tenant].USER = None
                    /\ cache'[resolver[u].tenant].NAME = resolver[u].tenant]_vars

\* A call has failed on a secret that is not JSON and the tenant has no entry
C15_Witness ==
    \E u \in Resolvers :
        /\ resolver[u].pc = "done"
        /\ resolver[u].exc = "JSONDecodeError"
        /\ cache[resolver[u].tenant] = NoEntry

\* ---- Tenant resolver claims ----

\* process_request has run on the request in hand
Processed == request.kind \notin {"none", "received"}

\* The tenant is stored with the activation flag set and status active
UsableNow(t) ==
    /\ site[t].is_active
    /\ site[t].deployment_status = "active"

\* The usable tenants with the given subdomain, or with the given id
UsableWithSubdomain(sub) ==
    {t \in MwTenantIds : mw_subdomain(t) = sub /\ UsableNow(t)}

UsableWithId(v) == {t \in MwTenantIds : UuidStr(t) = v /\ UsableNow(t)}

\* The request was rejected by get_tenant with the given message
RejectedUnresolved(msg) ==
    /\ request.kind = "Http404"
    /\ request.msg = msg
    /\ request.tenant = Absent

\* C16: when TENANT_SUBDOMAIN is set it alone decides: the request resolves
\* to the usable tenant with that subdomain whatever the header, the session
\* and the host say, and when there is none it is rejected as a service
\* configuration error; without it a present header decides alone, before
\* the host is looked at.
C16_ResolverPriority ==
    Processed =>
        /\ Truthy(environ) =>
               IF UsableWithSubdomain(environ) # {}
                   THEN request.tenant \in UsableWithSubdomain(environ)
                   ELSE RejectedUnresolved("Service configuration error")
        /\ (~Truthy(environ) /\ Truthy(request.in.header)) =>
               IF UsableWithId(request.in.header) # {}
                   THEN request.tenant \in UsableWithId(request.in.header)
                   ELSE /\ request.tenant = Absent
                        /\ request.kind \in {"Http404", "ValidationError"}
                        /\ request.kind = "Http404" =>
                               request.msg = "Tenant not found"

C16_Witness ==
    /\ Processed
    /\ environ = "hospital-a"
    /\ request.in.header = "uuid-B"
    /\ request.in.host.labels = <<"HOSPITAL-B", "mate", "com">>
    /\ request.tenant = "idA"
    /\ UsableNow("idB")

\* C17: a tenant attached to a request is stored with the activation flag
\* set and deployment status active, whichever of the environment, the
\* header, the session and the host named it; in particular so is the
\* tenant of every request that process_request did not reject.
C17_AttachedTenantIsUsable ==
    (Processed /\ request.tenant \notin {Absent, None}) =>
        /\ request.tenant \in MwTenantIds
        /\ UsableNow(request.tenant)

C17_Witness ==
    /\ request.kind = "ok"
    /\ request.in.host.labels = <<"localhost">>
    /\ request.in.session = "uuid-A"
    /\ ~Truthy(environ)
    /\ ~Truthy(request.in.header)
    /\ request.tenant = "idA"

\* The tenants, usable or not, that the deciding part of the request names:
\* the environment, else the header, else the first label of a host with a
\* subdomain
Identified ==
    IF Truthy(environ)
        THEN {t \in MwTenantIds : mw_subdomain(t) = environ}
    ELSE IF Truthy(request.in.header)
        THEN {t \in MwTenantIds : UuidStr(t) = request.in.header}
    ELSE IF Len(request.in.host.labels) = 3
        THEN {t \in MwTenantIds :
                 mw_subdomain(t) = lower(request.in.host.labels[1])}
    ELSE {}

\* The messages given when no tenant has the identifier
NotFoundMessages ==
    {"Service configuration error", "Tenant not found",
     "Organization not found"}

\* The message the status of an unusable tenant calls for
StatusMessage(status) ==
    CASE status = "provisioning" ->
             "Your environment is being set up. Please try again in a few minutes."
      [] status = "suspended" ->
             "This organization's account has been suspended"
      [] OTHER -> "This organization is not available"

\* C18: a request naming an existing tenant whose status is not active is
\* rejected with the message of that status (being set up, suspended, not
\* available), which is none of the messages for an identifier without tenant.
C18_RejectionTellsCasesApart ==
    Processed =>
        \A t \in Identified :
            (site[t].is_active /\ site[t].deployment_status # "active") =>
                /\ request.kind = "Http404"
                /\ request.msg = StatusMessage(site[t].deployment_status)
                /\ request.msg \notin NotFoundMessages

\* process_request handles the request of an authenticated user and
\* resolves it to a tenant
AuthenticatedResolved ==
    /\ request.kind = "received"
    /\ request'.kind \notin {"none", "received"}
    /\ is_authenticated(request.in.user)
    /\ request'.tenant \in MwTenantIds

\* C19: for a request of an authenticated user resolved to a tenant, an
\* active membership of the user in that tenant gets its last-access time
\* set to the time of the request and is attached to the request; without
\* one the request is rejected with a message that is no tenant-not-found
\* message and the membership table is left as it was.
C19_MembershipChecked ==
    [][AuthenticatedResolved =>
          LET k == <<request.in.user, request'.tenant>>
          IN IF k \in DOMAIN members /\ members[k].is_active
                 THEN /\ request'.kind = "ok"
                      /\ request'.tenant_user = k
                      /\ members' = [members EXCEPT
                                        ![k].last_login_at = <<now>>]
                 ELSE /\ request'.kind = "Http404"
                      /\ request'.msg \notin NotFoundMessages
                      /\ request'.msg # ""
                      /\ request'.tenant_user = Absent
                      /\ members' = members]_vars

C19_Witness ==
    /\ Processed
    /\ members[<<"alice", "idA">>].last_login_at = <<now>>
    /\ request.in.user = "bob"
    /\ request.tenant = "idA"
    /\ request.kind = "Http404"
    /\ request.msg = "You don't have access to this organization"
    /\ members[<<"bob", "idA">>].last_login_at = NullTime

\* ---- Resource creation claims ----

\* The calls that create the database, the object store and the cache
CreationApis ==
    {"create_db_instance", "create_bucket", "create_replication_group"}

\* C20: the encryption key comes first: whenever a call creating the
\* database, the object store or the cache of a tenant is issued, the key id
\* is already recorded on the tenant's row, and a key the call names is a
\* written one, however the creation tasks interleave.
C20_KeyCreatedFirst ==
    [][\A call \in cloud' \ cloud :
          call.api \in CreationApis =>
              /\ row[call.tenant].kms_key_id # ""
              /\ call.key \notin {"", None, Unset}]_vars

\* ---- Provisioning claims, continued ----

\* The failure handler of configure_tenant_resources finishes
ConfHandlerEnds ==
    /\ run["conf"].pc = "failing"
    /\ run'["conf"].pc = "done"

\* C22: a readiness timeout, or any other failure of the configuration
\* step, takes the failure path: when its handler is through, the tenant is
\* stored as failed, an audit event for the tenant has been recorded, and
\* the orchestration has been handed the failure and counts a retry.
C22_ConfigureFailureTakesFailurePath ==
    [][ConfHandlerEnds =>
          /\ row'[run["conf"].arg].deployment_status = "failed"
          /\ \E e \in events' : e.tenant = run["conf"].arg
          /\ run'["orch"].retries = run["orch"].retries + 1]_vars

\* C23: retry is bounded: a failed orchestration is queued again at most
\* max_retries times, re-attempt number n after 60 * n seconds, and when it
\* stops for good the tenant is left stored as failed.
C23_RetryBounded ==
    [][OrchHandlerEnds =>
          /\ run'["orch"].retries <= max_retries
          /\ run'["orch"].pc = "load" =>
                 run'["orch"].countdown = 60 * run'["orch"].retries
          /\ run'["orch"].pc = "done" =>
                 row'[run["orch"].arg].deployment_status = "failed"]_vars

\* The poller of the cache reports the cluster available in this step
CacheConfirmed ==
    /\ run["conf"].pc = "wait_cache"
    /\ run'["conf"].pc = "store"

\* C24: a resource record is created in status creating and becomes active
\* when the poller confirms the resource: once the poller has found the
\* cache cluster available, the tenant's cache cluster records are active.
C24_RecordActiveWhenConfirmed ==
    [][CacheConfirmed =>
          \A rec \in resources' :
              (/\ rec.tenant = run["conf"].arg
               /\ rec.resource_type = "elasticache_cluster") =>
                  rec.status = "active"]_vars

\* configure_tenant_resources goes through its activation (lines 395-401)
ActivationStep ==
    /\ run["conf"].pc = "activate"
    /\ run'["conf"].pc # "activate"

\* C25: what the provisioner writes when it marks a tenant active is what
\* the resolver reads: after the activation of the configuration step the
\* tenant is stored with the activation flag set and deployment status
\* active, the two values every lookup of get_tenant filters on.
C25_ActivationVisibleToResolver ==
    [][ActivationStep =>
          /\ row'[run["conf"].arg].is_active
          /\ row'[run["conf"].arg].deployment_status = "active"]_vars

\* C26: a provisioning request for an id without tenant record ends with the
\* tenant-not-found error itself and leaves no audit event and no resource
\* record for that id.
C26_MissingTenantNotFound ==
    (run["orch"].pc = "done" /\ run["orch"].arg \in ProvMissingIds) =>
        /\ run["orch"].exc = "DoesNotExist"
        /\ \A e \in events : e.tenant # run["orch"].arg
        /\ \A rec \in resources : rec.tenant # run["orch"].arg

\* The identifiers the creation tasks store on the tenant
IdentifierFields ==
    {"rds_instance_id", "redis_cluster_id", "s3_bucket_name", "kms_key_id"}

\* C27: however the creation tasks interleave, an identifier one of them
\* has stored on the tenant is still there after every later save: no
\* whole-record save overwrites a field written by another task.
C27_NoIdentifierOverwritten ==
    [][\A t \in DOMAIN row, f \in IdentifierFields :
          row[t][f] # "" => row'[t][f] = row[t][f]]_vars

Inserts(u) ==
    /\ resolver[u].pc = "parse"
    /\ resolver'[u].pc = "done"
    /\ resolver'[u].exc = None

\* C29: after an invalidation has returned, the cache is not given an entry
\* built from a response that was fetched before it, whatever the
\* interleaving of resolves and invalidations; and an entry put in the cache
\* for key k is the one configuration the call built for the tenant of
\* subdomain k.
C29_NoStaleReinsert ==
    [][\A u \in Resolvers :
          Inserts(u) =>
              /\ ~resolver[u].cleared
              /\ cache'[resolver[u].tenant] = resolver'[u].result
              /\ cache'[resolver[u].tenant].NAME = resolver[u].tenant]_vars

\* The tenant field that holds the identifier of a resource of the kind
IdentifierField(resource_type) ==
    CASE resource_type = "rds_instance" -> "rds_instance_id"
      [] resource_type = "elasticache_cluster" -> "redis_cluster_id"
      [] resource_type = "s3_bucket" -> "s3_bucket_name"
      [] resource_type = "kms_key" -> "kms_key_id"

\* C30: resource bookkeeping stays consistent over repeated attempts: a
\* tenant has at most one resource record of a kind, and the identifier the
\* tenant stores for the kind is the one of that record.
C30_BookkeepingConsistent ==
    \A rec \in resources :
        /\ row[rec.tenant][IdentifierField(rec.resource_type)]
               = rec.resource_id
        /\ \A other \in resources :
               (/\ other.tenant = rec.tenant
                /\ other.resource_type = rec.resource_type) => other = rec

=============================================================================
